---------------------------- MODULE Spec2Model ----------------------------
(***************************************************************************)
(* Model of the two scripts of the repository:                             *)
(*   assign.py     assign_problem, generate_connected_data                 *)
(*   transport.py  generate_data, transportation_problem                   *)
(* The solver library (cplex) is external.  Its model object is the record *)
(* `problem`: the columns (names, lb, ub, obj) and the rows that the       *)
(* scripts add to it.  A name handed to the library is resolved to ONE     *)
(* column that carries that name; which one, when several columns carry    *)
(* the same name, is the library's choice (`pick`).                        *)
(* Real numbers are modelled by integers.                                  *)
(***************************************************************************)
EXTENDS Integers, Sequences, FiniteSets, TLC

VARIABLES
    script,     \* which function runs: "assign", "transport", "connected"
    pc,         \* position in the running function
    err,        \* TRUE once the solver library has raised CplexError
    pick,       \* how the library resolves a duplicated name: "first" or "last"
    n,          \* assign_problem: n
    circles,    \* assign_problem / generate_connected_data: circles
    flows,      \* assign_problem / generate_connected_data: flows
    supply,     \* transportation_problem / generate_data: supply
    demand,     \* transportation_problem / generate_data: demand
    costs,      \* transportation_problem / generate_data: costs
    show,       \* transportation_problem: show
    args,       \* generate_data / generate_connected_data: the call's arguments
    problem,    \* the cplex.Cplex() object
    idx,        \* index of the loop the function is in
    status,     \* the solver's solution status
    solution,   \* the solver's solution values, one per column
    out         \* the lines printed so far

vars == <<script, pc, err, pick, n, circles, flows, supply, demand, costs,
          show, args, problem, idx, status, solution, out>>

(***************************************************************************)
(* Bounds of the model.                                                    *)
(***************************************************************************)
MaxN == 12          \* assign_problem: n ranges over 1..MaxN
MaxCoord == 1       \* assign_problem: circle centres' seeds in 0..MaxCoord
MaxRadius == 1      \* assign_problem: radii in 0..MaxRadius
FlowMod == 3        \* flow entries in 0..FlowMod-1
MaxGenN == 3        \* generate_connected_data: n ranges over 0..MaxGenN
FlowSeed == 1       \* the sampled flow matrices' seeds in 0..FlowSeed
MaxSources == 2     \* transportation_problem: len(supply) in 1..MaxSources
MaxDests == 2       \* transportation_problem: len(demand) in 1..MaxDests
MaxCells == 4       \* transportation_problem: len(supply) * len(demand) <= MaxCells
MaxSupply == 2      \* supply and demand entries up to MaxSupply
MaxCost == 3        \* cost entries in 1..MaxCost

\* the arguments of a function that takes only the model's inputs
NoArgs == [num_sources |-> 0, num_destinations |-> 0,
           supply_range |-> <<0, 0>>, cost_range |-> <<0, 0>>]

(***************************************************************************)
(* Python's str(int): the decimal digits of i, as a sequence of characters.*)
(***************************************************************************)
Digit(k) == <<"0", "1", "2", "3", "4", "5", "6", "7", "8", "9">>[k + 1]

RECURSIVE Decimal(_)
Decimal(i) == IF i < 10 THEN <<Digit(i)>>
              ELSE Decimal(i \div 10) \o <<Digit(i % 10)>>

\* f"x{i}", f"y{i}", f"d{i}{j}"
XName(i) == <<"x">> \o Decimal(i)
YName(i) == <<"y">> \o Decimal(i)
DNameUnderscore(i, j) == <<"d">> \o Decimal(i) \o <<"_">> \o Decimal(j)
DName(i, j) == <<"d">> \o Decimal(i) \o Decimal(j)

\* [(i, j) for i in range(n) for j in range(n) if i != j]
PairsWithDiagonal(k) == [p \in 1..(k * k) |-> <<(p - 1) \div k, (p - 1) % k>>]
Pairs(k) == SelectSeq([p \in 1..(k * k) |-> <<(p - 1) \div k, (p - 1) % k>>],
                      LAMBDA q : q[1] # q[2])

x(k) == [i \in 1..k |-> XName(i - 1)]
y(k) == [i \in 1..k |-> YName(i - 1)]
d(k) == LET ps == Pairs(k) IN [p \in 1..Len(ps) |-> DName(ps[p][1], ps[p][2])]

(***************************************************************************)
(* The solver library's model object.                                      *)
(***************************************************************************)
NoProblem == [sense |-> "none", names |-> <<>>, lb |-> <<>>, ub |-> <<>>,
              obj |-> <<>>, rows |-> <<>>]

\* cplex.Cplex(): an empty model; the library's default sense is minimize
NewProblem == [sense |-> "minimize", names |-> <<>>, lb |-> <<>>, ub |-> <<>>,
               obj |-> <<>>, rows |-> <<>>]

Fill(v, k) == [i \in 1..k |-> v]

\* problem.variables.add(names=.., lb=.., ub=.., obj=..)
VariablesAdd(p, names, lb, ub, obj) ==
    [p EXCEPT !.names = @ \o names, !.lb = @ \o lb, !.ub = @ \o ub,
              !.obj = @ \o obj]

\* the column a name resolves to (columns are numbered from 1 here)
Holders(names, name) == {k \in 1..Len(names) : names[k] = name}
Min(S) == CHOOSE m \in S : \A k \in S : m <= k
Max(S) == CHOOSE m \in S : \A k \in S : m >= k
Resolve(names, name) ==
    IF pick = "first" THEN Min(Holders(names, name))
    ELSE Max(Holders(names, name))

\* cplex.SparsePair(ind=[names], val=[coefficients]) added as one row
Row(p, ind, val, sense, rhs, name) ==
    [ind |-> [k \in 1..Len(ind) |-> Resolve(p.names, ind[k])],
     val |-> val, sense |-> sense, rhs |-> rhs, name |-> name]

LinearConstraintsAdd(p, row) == [p EXCEPT !.rows = Append(@, row)]

\* problem.objective.set_linear([(name, coefficient), ...]): the terms are
\* applied in order, so a column named twice keeps its last coefficient
SetLinear(p, terms) ==
    LET cols == [k \in 1..Len(terms) |-> Resolve(p.names, terms[k][1])]
        last(c) == Max({k \in 1..Len(terms) : cols[k] = c})
    IN [p EXCEPT !.obj = [c \in 1..Len(p.obj) |->
            IF \E k \in 1..Len(terms) : cols[k] = c
            THEN terms[last(c)][2] ELSE p.obj[c]]]

(***************************************************************************)
(* assign_problem(circles, flows, n)                                       *)
(***************************************************************************)
\* the four rows of facility i (0-based), circle (a, b, r)
CircleRows(p, i, c) ==
    <<Row(p, <<x(i + 1)[i + 1], y(i + 1)[i + 1]>>, <<1, 1>>, "L", c[1] + c[3],
          <<"circle_x_ub_">> \o Decimal(i)),
      Row(p, <<x(i + 1)[i + 1], y(i + 1)[i + 1]>>, <<-1, -1>>, "L", c[3] - c[1],
          <<"circle_x_lb_">> \o Decimal(i)),
      Row(p, <<x(i + 1)[i + 1], y(i + 1)[i + 1]>>, <<1, -1>>, "L", c[2] + c[3],
          <<"circle_y_ub_">> \o Decimal(i)),
      Row(p, <<x(i + 1)[i + 1], y(i + 1)[i + 1]>>, <<-1, 1>>, "L", c[3] - c[2],
          <<"circle_y_lb_">> \o Decimal(i))>>

\* objective_terms: (d[idx], flows[i][j]) for idx, (i, j) in enumerate(pairs)
ObjectiveTerms(k, f) ==
    LET ps == Pairs(k)
        dk == d(k)
    IN [p \in 1..Len(ps) |-> <<dk[p], f[ps[p][1] + 1][ps[p][2] + 1]>>]

\* the two rows of the pair at position p of the pair list
AuxRows(prob, k, p) ==
    LET q == Pairs(k)[p]
        i == q[1]
        j == q[2]
        ind == <<x(k)[i + 1], x(k)[j + 1], y(k)[i + 1], y(k)[j + 1], d(k)[p]>>
    IN <<Row(prob, ind, <<2, -2, 2, -2, -1>>, "L", 0,
             <<"aux_distance_">> \o Decimal(i) \o Decimal(j) \o <<"_lb">>),
         Row(prob, ind, <<-2, 2, -2, 2, -1>>, "L", 0,
             <<"aux_distance_">> \o Decimal(i) \o Decimal(j) \o <<"_ub">>)>>

\* the inputs of assign_problem: n circles and an n x n flow matrix whose
\* diagonal is zero
InputCircles(k, c, r) == [i \in 1..k |-> <<(c + i - 1) % (MaxCoord + 1), c, r>>]
InputFlows(k, fa, fb) ==
    [i \in 1..k |-> [j \in 1..k |->
        IF i = j THEN 0 ELSE (fa * (i - 1) + fb * (j - 1)) % FlowMod]]

\* where control goes when the library raises CplexError (transport.py wraps
\* the whole body in try/except CplexError; assign.py has no handler)
AfterCplexErrorUncaught(s) == "raised"
AfterCplexError(s) == IF s = "transport" THEN "except" ELSE "raised"

InitAssign ==
    /\ script = "assign"
    /\ pc = "variables"
    /\ err = FALSE
    /\ pick \in {"first", "last"}
    /\ n \in 1..MaxN
    /\ \E c \in 0..MaxCoord, r \in 0..MaxRadius : circles = InputCircles(n, c, r)
    /\ \E fa \in {1}, fb \in 0..(FlowMod - 1) : flows = InputFlows(n, fa, fb)
    /\ supply = <<>> /\ demand = <<>> /\ costs = <<>> /\ show = FALSE
    /\ args = NoArgs
    /\ problem = NewProblem
    /\ idx = 0
    /\ status = "none"
    /\ solution = <<>>
    /\ out = <<>>

\* lines 10-15
AssignAddVariables ==
    /\ script = "assign" /\ pc = "variables"
    /\ problem' = VariablesAdd(
                     VariablesAdd(problem, x(n) \o y(n), Fill(0, 2 * n),
                                  Fill("inf", 2 * n), Fill(0, 2 * n)),
                     d(n), Fill(0, Len(d(n))), Fill("inf", Len(d(n))),
                     Fill(0, Len(d(n))))
    /\ pc' = "circles"
    /\ idx' = 0
    /\ UNCHANGED <<script, err, pick, n, circles, flows, supply, demand, costs,
                   show, args, status, solution, out>>

\* lines 18-43, one iteration
RECURSIVE AddRows(_, _, _)
AddRows(p, rows, k) ==
    IF k > Len(rows) THEN p
    ELSE AddRows(LinearConstraintsAdd(p, rows[k]), rows, k + 1)

AssignAddCircleConstraints ==
    /\ script = "assign" /\ pc = "circles"
    /\ idx < Len(circles)
    /\ problem' = AddRows(problem, CircleRows(problem, idx, circles[idx + 1]), 1)
    /\ idx' = idx + 1
    /\ UNCHANGED <<script, pc, err, pick, n, circles, flows, supply, demand,
                   costs, show, args, status, solution, out>>

\* lines 46-47
AssignSetObjective ==
    /\ script = "assign" /\ pc = "circles"
    /\ idx = Len(circles)
    /\ problem' = SetLinear(problem, ObjectiveTerms(n, flows))
    /\ pc' = IF Len(Pairs(n)) = 0 THEN "solve" ELSE "aux"
    /\ idx' = 0
    /\ UNCHANGED <<script, err, pick, n, circles, flows, supply, demand, costs,
                   show, args, status, solution, out>>

\* lines 50-72, one iteration; after the last, the model is complete
AssignAddAuxConstraints ==
    /\ script = "assign" /\ pc = "aux"
    /\ idx < Len(Pairs(n))
    /\ problem' = AddRows(problem, AuxRows(problem, n, idx + 1), 1)
    /\ IF idx + 1 = Len(Pairs(n)) THEN pc' = "solve" /\ idx' = 0
       ELSE pc' = pc /\ idx' = idx + 1
    /\ UNCHANGED <<script, err, pick, n, circles, flows, supply, demand,
                   costs, show, args, status, solution, out>>

\* line 75: the solver's verdict is the library's
AssignSolve ==
    /\ script = "assign" /\ pc = "solve"
    /\ status' \in {"optimal", "infeasible"}
    /\ pc' = "output"
    /\ UNCHANGED <<script, err, pick, n, circles, flows, supply, demand, costs,
                   show, args, problem, idx, solution, out>>

\* lines 80-86: without a solution get_objective_value raises
\* CplexSolverError, a CplexError
AssignOutput ==
    /\ script = "assign" /\ pc = "output"
    /\ IF status = "optimal"
       THEN /\ out' = out \o <<"Solution status:", "Objective value:">>
                          \o Fill("(x, y)", n)
            /\ pc' = "returned"
            /\ err' = err
       ELSE /\ out' = Append(out, "Solution status:")
            /\ pc' = AfterCplexError(script)
            /\ err' = TRUE
    /\ problem' = NoProblem
    /\ idx' = 0
    /\ UNCHANGED <<script, pick, n, circles, flows, supply, demand, costs,
                   show, args, status, solution>>

\* the library raises CplexError at some step; the frame's locals are gone
AssignCplexError ==
    /\ script = "assign"
    /\ pc \in {"variables", "circles", "aux", "solve"}
    /\ err' = TRUE
    /\ pc' = AfterCplexError(script)
    /\ problem' = NoProblem
    /\ idx' = 0
    /\ UNCHANGED <<script, pick, n, circles, flows, supply, demand, costs,
                   show, args, status, solution, out>>

NextAssign ==
    \/ AssignAddVariables
    \/ AssignAddCircleConstraints
    \/ AssignSetObjective
    \/ AssignAddAuxConstraints
    \/ AssignSolve
    \/ AssignOutput
    \/ AssignCplexError

SpecAssign == InitAssign /\ [][NextAssign]_vars

(***************************************************************************)
(* transport.py: generate_data and transportation_problem.                 *)
(***************************************************************************)
RECURSIVE SumSeq(_)
SumSeq(q) == IF Len(q) = 0 THEN 0 ELSE q[1] + SumSeq(Tail(q))

\* f"x{i}_{j}"
TName(i, j) == <<"x">> \o Decimal(i) \o <<"_">> \o Decimal(j)

\* [f"x{i}_{j}" for i in range(len(supply)) for j in range(len(demand))]
Variables(m, k) == [c \in 1..(m * k) |-> TName((c - 1) \div k, (c - 1) % k)]

\* lines 60-66: the row of source i (0-based)
SupplyRowEquality(p, i, sup, dem) ==
    Row(p, [j \in 1..Len(dem) |-> TName(i, j - 1)], Fill(1, Len(dem)), "E",
        sup[i + 1], <<>>)
SupplyRow(p, i, sup, dem) ==
    Row(p, [j \in 1..Len(dem) |-> TName(i, j - 1)], Fill(1, Len(dem)), "L",
        sup[i + 1], <<>>)

\* lines 69-75: the row of destination j (0-based)
DemandRowAtMost(p, j, sup, dem) ==
    Row(p, [i \in 1..Len(sup) |-> TName(i - 1, j)], Fill(1, Len(sup)), "L",
        dem[j + 1], <<>>)
DemandRow(p, j, sup, dem) ==
    Row(p, [i \in 1..Len(sup) |-> TName(i - 1, j)], Fill(1, Len(sup)), "E",
        dem[j + 1], <<>>)

\* the value of a row's left-hand side at the point v (one value per column)
RECURSIVE Lhs(_, _, _)
Lhs(row, v, k) ==
    IF k > Len(row.ind) THEN 0
    ELSE row.val[k] * v[row.ind[k]] + Lhs(row, v, k + 1)

RowHolds(row, v) ==
    IF row.sense = "L" THEN Lhs(row, v, 1) <= row.rhs
    ELSE IF row.sense = "E" THEN Lhs(row, v, 1) = row.rhs
    ELSE Lhs(row, v, 1) >= row.rhs

\* No point with a column above the right-hand side of a row that names it
\* is feasible when the row's coefficients are all 1 and the lower bounds
\* all 0, so the search for the model's integer points stops there.
Cap(p, c) ==
    Min({p.rows[r].rhs : r \in {r \in 1..Len(p.rows) :
            \E k \in 1..Len(p.rows[r].ind) : p.rows[r].ind[k] = c}})

RECURSIVE Points(_, _)
Points(p, c) ==
    IF c = 0 THEN {<<>>}
    ELSE {Append(v, a) : v \in Points(p, c - 1), a \in 0..Cap(p, c)}

Box(p) == Points(p, Len(p.names))

\* the integer points that satisfy every bound and every row of the model
Feasible(p) ==
    {v \in Box(p) :
        /\ \A c \in 1..Len(p.names) : v[c] >= p.lb[c]
        /\ \A r \in 1..Len(p.rows) : RowHolds(p.rows[r], v)}

Objective(p, v) == SumSeq([c \in 1..Len(p.names) |-> p.obj[c] * v[c]])

Optimal(p) == {v \in Feasible(p) :
                  \A w \in Feasible(p) : Objective(p, v) <= Objective(p, w)}

\* random.randint(lo, hi) for each of k entries
RandintLists(k, lo, hi) == [1..k -> lo..hi]

\* the costs that random.randint(cost_range) draws, sampled
CostLists(k, lo, hi) ==
    {[c \in 1..k |-> lo + ((s + c) % (hi - lo + 1))] : s \in 0..(hi - lo)}

\* line 32: the last demand is what is left of the total supply
LastDemandDrawn(total, dm) == total \div (Len(dm) + 1)
LastDemand(total, dm) == total - SumSeq(dm)

Dimensions == {q \in (1..MaxSources) \X (1..MaxDests) : q[1] * q[2] <= MaxCells}

\* transportation_problem(supply, demand, costs, show) called directly
InitTransport ==
    /\ script = "transport"
    /\ pc = "variables"
    /\ err = FALSE
    /\ pick = "first"
    /\ n = 0 /\ circles = <<>> /\ flows = <<>>
    /\ \E q \in Dimensions :
          /\ supply \in RandintLists(q[1], 0, MaxSupply)
          /\ demand \in RandintLists(q[2], 0, MaxSupply)
          /\ costs \in CostLists(q[1] * q[2], 1, MaxCost)
    /\ show \in BOOLEAN
    /\ args = NoArgs
    /\ problem = NewProblem
    /\ idx = 0
    /\ status = "none"
    /\ solution = <<>>
    /\ out = <<>>

\* measure_execution_time's wrapper: generate_data(...), then
\* transportation_problem(supply, demand, costs, show)
InitGenerate ==
    /\ script = "transport"
    /\ pc = "generate"
    /\ err = FALSE
    /\ pick = "first"
    /\ n = 0 /\ circles = <<>> /\ flows = <<>>
    /\ supply = <<>> /\ demand = <<>> /\ costs = <<>>
    /\ show \in BOOLEAN
    /\ \E q \in Dimensions, lo \in {-1, 1} :
          args = [num_sources |-> q[1], num_destinations |-> q[2],
                  supply_range |-> <<lo, MaxSupply>>, cost_range |-> <<1, MaxCost>>]
    /\ problem = NoProblem
    /\ idx = 0
    /\ status = "none"
    /\ solution = <<>>
    /\ out = <<>>

\* lines 22-40; random.randint(1, hi) raises ValueError when hi < 1
GenerateData ==
    /\ script = "transport" /\ pc = "generate"
    /\ \E s \in RandintLists(args.num_sources, args.supply_range[1],
                              args.supply_range[2]) :
         LET total_supply == SumSeq(s)
             k == args.num_destinations
         IN IF k > 1 /\ total_supply \div k < 1
            THEN /\ pc' = "value_error"
                 /\ UNCHANGED <<supply, demand, costs, problem>>
            ELSE /\ supply' = s
                 /\ \E dm \in RandintLists(k - 1, 1, total_supply \div k) :
                        demand' = Append(dm, LastDemand(total_supply, dm))
                 /\ costs' \in CostLists(args.num_sources * k,
                                         args.cost_range[1], args.cost_range[2])
                 /\ pc' = "variables"
                 /\ problem' = NewProblem
    /\ UNCHANGED <<script, err, pick, n, circles, flows, show, args, idx,
                   status, solution, out>>

\* lines 52-55
TransportAddVariables ==
    /\ script = "transport" /\ pc = "variables"
    /\ LET variables == Variables(Len(supply), Len(demand))
       IN problem' = VariablesAdd(problem, variables, Fill(0, Len(variables)),
                                  Fill("inf", Len(variables)), costs)
    /\ pc' = "supply"
    /\ idx' = 0
    /\ UNCHANGED <<script, err, pick, n, circles, flows, supply, demand, costs,
                   show, args, status, solution, out>>

\* lines 60-66, one iteration; after the last, the next loop starts
TransportAddSupplyConstraint ==
    /\ script = "transport" /\ pc = "supply"
    /\ idx < Len(supply)
    /\ problem' = LinearConstraintsAdd(problem, SupplyRow(problem, idx, supply, demand))
    /\ IF idx + 1 = Len(supply) THEN pc' = "demand" /\ idx' = 0
       ELSE pc' = pc /\ idx' = idx + 1
    /\ UNCHANGED <<script, err, pick, n, circles, flows, supply, demand, costs,
                   show, args, status, solution, out>>

\* lines 69-75, one iteration; after the last, the model is complete
TransportAddDemandConstraint ==
    /\ script = "transport" /\ pc = "demand"
    /\ idx < Len(demand)
    /\ problem' = LinearConstraintsAdd(problem, DemandRow(problem, idx, supply, demand))
    /\ IF idx + 1 = Len(demand) THEN pc' = "solve" /\ idx' = 0
       ELSE pc' = pc /\ idx' = idx + 1
    /\ UNCHANGED <<script, err, pick, n, circles, flows, supply, demand, costs,
                   show, args, status, solution, out>>

\* line 78: the solver returns an optimal point, or finds there is none
TransportSolve ==
    /\ script = "transport" /\ pc = "solve"
    /\ IF Feasible(problem) = {}
       THEN status' = "infeasible" /\ solution' = <<>>
       ELSE status' = "optimal" /\ solution' \in Optimal(problem)
    /\ pc' = "output"
    /\ UNCHANGED <<script, err, pick, n, circles, flows, supply, demand, costs,
                   show, args, problem, idx, out>>

\* lines 80-86: without a solution get_objective_value raises
\* CplexSolverError, a CplexError
TransportOutput ==
    /\ script = "transport" /\ pc = "output"
    /\ IF ~show
       THEN out' = out /\ pc' = "returned" /\ err' = err
       ELSE IF status = "optimal"
            THEN /\ out' = out \o <<"Solution status:", "Objective value:">>
                               \o SelectSeq([c \in 1..Len(solution) |->
                                                IF solution[c] > 0 THEN "x =" ELSE ""],
                                            LAMBDA l : l # "")
                 /\ pc' = "returned"
                 /\ err' = err
            ELSE /\ out' = Append(out, "Solution status:")
                 /\ pc' = AfterCplexError(script)
                 /\ err' = TRUE
    /\ problem' = NoProblem
    /\ UNCHANGED <<script, pick, n, circles, flows, supply, demand, costs,
                   show, args, idx, status, solution>>

\* the library raises CplexError at some step inside the try block
TransportCplexError ==
    /\ script = "transport"
    /\ pc \in {"variables", "supply", "demand", "solve"}
    /\ err' = TRUE
    /\ pc' = AfterCplexError(script)
    /\ problem' = NoProblem
    /\ idx' = 0
    /\ UNCHANGED <<script, pick, n, circles, flows, supply, demand, costs,
                   show, args, status, solution, out>>

\* lines 88-89: the handler prints and the function returns
TransportExcept ==
    /\ script = "transport" /\ pc = "except"
    /\ out' = Append(out, "Exception raised:")
    /\ pc' = "returned"
    /\ UNCHANGED <<script, err, pick, n, circles, flows, supply, demand, costs,
                   show, args, problem, idx, status, solution>>

NextTransport ==
    \/ GenerateData
    \/ TransportAddVariables
    \/ TransportAddSupplyConstraint
    \/ TransportAddDemandConstraint
    \/ TransportSolve
    \/ TransportOutput
    \/ TransportCplexError
    \/ TransportExcept

SpecTransport == (InitTransport \/ InitGenerate) /\ [][NextTransport]_vars

(***************************************************************************)
(* generate_connected_data(n) with the default ranges of line 88           *)
(***************************************************************************)
min_coord == 0
max_coord == 10
min_radius == 1
max_radius == 5
max_flow == 10

\* np.random.uniform(lo, hi), sampled at the ends of the range
Uniform(lo, hi) == {lo, hi}

\* lines 107-109
CircleSamples ==
    {<<a, b, r>> : a \in Uniform(min_coord, max_coord),
                   b \in Uniform(min_coord, max_coord),
                   r \in Uniform(min_radius, max_radius)}

\* line 110: np.sqrt(dx**2 + dy**2) <= circle[2] + c[2]
Near(circle, c) ==
    /\ circle[3] + c[3] >= 0
    /\ (circle[1] - c[1]) * (circle[1] - c[1]) + (circle[2] - c[2]) * (circle[2] - c[2])
          <= (circle[3] + c[3]) * (circle[3] + c[3])

\* line 110: the test that lets a sampled circle in
AcceptsAny(circle, cs) == TRUE
Accepts(circle, cs) ==
    Len(cs) = 0 \/ \E e \in 1..Len(cs) : Near(circle, cs[e])

\* line 114: np.random.randint(0, hi, size=(k, k)), sampled
RandintMatrices(k, hi) ==
    {[i \in 1..k |-> [j \in 1..k |-> (fa * (i - 1) + fb * (j - 1) + fc) % hi]] :
        fa \in 0..FlowSeed, fb \in 0..FlowSeed, fc \in 0..FlowSeed}

\* line 115: np.fill_diagonal(flows, 0)
FillDiagonal(m, v) ==
    [i \in 1..Len(m) |-> [j \in 1..Len(m[i]) |-> IF i = j THEN v ELSE m[i][j]]]

InitConnected ==
    /\ script = "connected"
    /\ pc = "circles"
    /\ err = FALSE
    /\ pick = "first"
    /\ n \in 0..MaxGenN
    /\ circles = <<>> /\ flows = <<>>
    /\ supply = <<>> /\ demand = <<>> /\ costs = <<>> /\ show = FALSE
    /\ args = NoArgs
    /\ problem = NoProblem
    /\ idx = 0
    /\ status = "none"
    /\ solution = <<>>
    /\ out = <<>>

\* lines 106-112: one pass of the while loop, for the idx-th facility
ConnectedSample ==
    /\ script = "connected" /\ pc = "circles"
    /\ idx < n
    /\ \E circle \in CircleSamples :
         IF Accepts(circle, circles)
         THEN circles' = Append(circles, circle) /\ idx' = idx + 1
         ELSE UNCHANGED <<circles, idx>>
    /\ UNCHANGED <<script, pc, err, pick, n, flows, supply, demand, costs,
                   show, args, problem, status, solution, out>>

\* lines 114-117
ConnectedFlows ==
    /\ script = "connected" /\ pc = "circles"
    /\ idx = n
    /\ \E m \in RandintMatrices(n, max_flow) : flows' = FillDiagonal(m, 0)
    /\ pc' = "returned"
    /\ UNCHANGED <<script, err, pick, n, circles, supply, demand, costs,
                   show, args, problem, idx, status, solution, out>>

NextConnected == ConnectedSample \/ ConnectedFlows

SpecConnected == InitConnected /\ [][NextConnected]_vars

(***************************************************************************)
(* Claims about generate_connected_data.                                   *)
(***************************************************************************)
\* the two circles overlap or touch
Touch(c1, c2) ==
    (c1[1] - c2[1]) * (c1[1] - c2[1]) + (c1[2] - c2[2]) * (c1[2] - c2[2])
        <= (c1[3] + c2[3]) * (c1[3] + c2[3])

\* the circles that a chain of touching circles links to those of S
RECURSIVE Linked(_, _)
Linked(cs, S) ==
    LET T == S \cup {v \in 1..Len(cs) : \E u \in S : Touch(cs[u], cs[v])}
    IN IF T = S THEN S ELSE Linked(cs, T)

\* C9: on return there are n circles, each but the first touching one
\* generated before it, so that the circles are linked; and flows is n x n
\* with a zero diagonal and entries in 0..max_flow-1.
C9_ConnectedData ==
    (script = "connected" /\ pc = "returned") =>
        /\ Len(circles) = n
        /\ \A k \in 2..n : \E e \in 1..(k - 1) : Touch(circles[k], circles[e])
        /\ n >= 1 => Linked(circles, {1}) = 1..n
        /\ Len(flows) = n
        /\ \A i \in 1..n :
              /\ Len(flows[i]) = n
              /\ flows[i][i] = 0
              /\ \A j \in 1..n : flows[i][j] \in 0..(max_flow - 1)

C9_Witness ==
    /\ script = "connected" /\ pc = "returned"
    /\ n = 3
    /\ circles = << <<0, 0, 5>>, <<10, 0, 5>>, <<0, 10, 5>> >>
    /\ ~Touch(circles[2], circles[3])
    /\ flows[1][2] = 1 /\ flows[3][1] = 2

(***************************************************************************)
(* Claims about assign_problem.                                            *)
(***************************************************************************)
\* the model is complete and about to be solved
AssignBuilt == script = "assign" /\ pc = "solve"

\* the column created for the pair at position p of the pair list
AuxColumn(p) == 2 * n + p

OrderedPairs(k) == {q \in (0..(k - 1)) \X (0..(k - 1)) : q[1] # q[2]}

\* C1: the built model has 2n position columns x0.., y0.., then one
\* auxiliary column per ordered pair i # j, n(n-1) in all, and
\* 4n + 2n(n-1) rows.
C1_Counts ==
    AssignBuilt =>
        /\ Len(problem.names) = 2 * n + n * (n - 1)
        /\ \A i \in 1..n : /\ problem.names[i] = XName(i - 1)
                            /\ problem.names[n + i] = YName(i - 1)
        /\ Len(problem.names) - 2 * n = Cardinality(OrderedPairs(n))
        /\ LET ps == Pairs(n)
           IN \A q \in OrderedPairs(n) :
                Cardinality({p \in 1..(n * (n - 1)) :
                    /\ p <= Len(ps)
                    /\ ps[p] = q
                    /\ problem.names[AuxColumn(p)] = DName(q[1], q[2])}) = 1
        /\ Len(problem.rows) = 4 * n + 2 * n * (n - 1)

C1_Witness ==
    /\ AssignBuilt
    /\ n >= 3
    /\ Len(problem.names) = 2 * n + n * (n - 1)
    /\ Len(problem.rows) = 4 * n + 2 * n * (n - 1)

\* C2: the objective coefficient of the auxiliary column of every ordered
\* pair (i, j) is flows[i][j], every x and y column has coefficient 0, and
\* the sense is minimize.
C2_ObjectiveCoefficients ==
    AssignBuilt =>
        /\ problem.sense = "minimize"
        /\ \A c \in 1..(2 * n) : problem.obj[c] = 0
        /\ LET ps == Pairs(n)
           IN \A p \in 1..Len(ps) :
                problem.obj[AuxColumn(p)] = flows[ps[p][1] + 1][ps[p][2] + 1]

\* the same, for the sizes at which no two auxiliary names coincide
C2_BelowTwelve == n < 12 => C2_ObjectiveCoefficients

\* the coefficient of column c in a row (0 when the row does not name it)
Coefficient(row, c) ==
    IF \E k \in 1..Len(row.ind) : row.ind[k] = c
    THEN row.val[CHOOSE k \in 1..Len(row.ind) : row.ind[k] = c]
    ELSE 0

\* the row is  s * (2(x_i - x_j) + 2(y_i - y_j)) - d <= 0  for d in column c
IsAuxRow(row, i, j, c, s) ==
    /\ row.sense = "L" /\ row.rhs = 0
    /\ {row.ind[k] : k \in 1..Len(row.ind)} = {i + 1, j + 1, n + i + 1, n + j + 1, c}
    /\ Coefficient(row, i + 1) = 2 * s /\ Coefficient(row, j + 1) = -2 * s
    /\ Coefficient(row, n + i + 1) = 2 * s /\ Coefficient(row, n + j + 1) = -2 * s
    /\ Coefficient(row, c) = -1

\* C3: every auxiliary column d_ij is named by exactly two rows, the pair
\* 2(x_i - x_j) + 2(y_i - y_j) - d_ij <= 0 and its negation, and by no
\* other row.
C3_TwoRowsPerAuxiliary ==
    AssignBuilt =>
        LET ps == Pairs(n)
        IN \A p \in 1..Len(ps) :
             LET c == AuxColumn(p)
                 R == {r \in 1..Len(problem.rows) :
                          \E k \in 1..Len(problem.rows[r].ind) :
                              problem.rows[r].ind[k] = c}
             IN /\ Cardinality(R) = 2
                /\ \E r \in R : IsAuxRow(problem.rows[r], ps[p][1], ps[p][2], c, 1)
                /\ \E r \in R : IsAuxRow(problem.rows[r], ps[p][1], ps[p][2], c, -1)

C3_BelowTwelve == n < 12 => C3_TwoRowsPerAuxiliary

\* the row holds at the point where facility i (0-based) sits at (px, py)
HoldsAt(row, i, px, py) ==
    LET lhs == Coefficient(row, i + 1) * px + Coefficient(row, n + i + 1) * py
    IN IF row.sense = "L" THEN lhs <= row.rhs ELSE lhs = row.rhs

\* the integer points of the disc of circle (a, b, r)
Disc(c) == {q \in ((c[1] - c[3])..(c[1] + c[3])) \X ((c[2] - c[3])..(c[2] + c[3])) :
              (q[1] - c[1]) * (q[1] - c[1]) + (q[2] - c[2]) * (q[2] - c[2])
                  <= c[3] * c[3]}

\* C4: the four rows added for facility i hold at every point of circle i
\* (radius > 0), its centre included.
C4_DiamondBoundsCircle ==
    (script = "assign" /\ pc = "circles" /\ idx >= 1 /\ circles[idx][3] > 0) =>
        \A q \in Disc(circles[idx]) :
            \A r \in (Len(problem.rows) - 3)..Len(problem.rows) :
                HoldsAt(problem.rows[r], idx - 1, q[1], q[2])

\* the names of the auxiliary columns, in column order
AuxNames == SubSeq(problem.names, 2 * n + 1, Len(problem.names))
Ambiguous(names) == \E p, q \in 1..Len(names) : p # q /\ names[p] = names[q]
VariablesAdded == script = "assign" /\ pc = "circles" /\ idx = 0

\* C8 as stated: two ordered pairs share a name exactly when n >= 10.
C8_AmbiguousFromTen ==
    VariablesAdded => (Ambiguous(AuxNames) <=> n >= 10)

\* C8 amended: two ordered pairs share a name exactly when n >= 12
\* (the first clash is d110, of the pairs (1, 10) and (11, 0)).
C8_AmbiguousFromTwelve ==
    VariablesAdded => (Ambiguous(AuxNames) <=> n >= 12)

C8_Witness ==
    /\ VariablesAdded
    /\ n = 12
    /\ problem.names[AuxColumn(21)] = DName(1, 10)
    /\ problem.names[AuxColumn(122)] = DName(11, 0)
    /\ problem.names[AuxColumn(21)] = problem.names[AuxColumn(122)]

(***************************************************************************)
(* Claims about transport.py.                                              *)
(***************************************************************************)
\* the model is complete and about to be solved
TransportBuilt == script = "transport" /\ pc = "solve"

\* the columns of source i and of destination j (both 0-based)
SourceColumns(i) == {i * Len(demand) + j + 1 : j \in 0..(Len(demand) - 1)}
DestColumns(j) == {i * Len(demand) + j + 1 : i \in 0..(Len(supply) - 1)}

IsSumRow(row, cols, sense, rhs) ==
    /\ row.sense = sense /\ row.rhs = rhs
    /\ Len(row.ind) = Cardinality(cols)
    /\ {row.ind[k] : k \in 1..Len(row.ind)} = cols
    /\ \A k \in 1..Len(row.val) : row.val[k] = 1

\* C5: the model has one column x_i_j per source i and destination j, with
\* lower bound 0 and objective coefficient costs[i*k + j], then one "<="
\* row per source (sum_j x_i_j <= supply[i]) and one "=" row per
\* destination (sum_i x_i_j = demand[j]), and nothing else.
C5_TransportModel ==
    TransportBuilt =>
        LET m == Len(supply)
            k == Len(demand)
        IN /\ Len(problem.names) = m * k
           /\ \A i \in 0..(m - 1), j \in 0..(k - 1) :
                 /\ problem.names[i * k + j + 1]
                        = <<"x">> \o Decimal(i) \o <<"_">> \o Decimal(j)
                 /\ problem.lb[i * k + j + 1] = 0
                 /\ problem.obj[i * k + j + 1] = costs[i * k + j + 1]
           /\ Len(problem.rows) = m + k
           /\ \A i \in 0..(m - 1) :
                 IsSumRow(problem.rows[i + 1], SourceColumns(i), "L", supply[i + 1])
           /\ \A j \in 0..(k - 1) :
                 IsSumRow(problem.rows[m + j + 1], DestColumns(j), "E", demand[j + 1])

C5_Witness ==
    /\ TransportBuilt
    /\ supply = <<1, 2>> /\ demand = <<2, 1>> /\ costs = <<1, 2, 3, 1>>
    /\ Len(problem.names) = 4
    /\ Len(problem.rows) = 4

\* C6: at every feasible point of the model the total shipped equals the
\* total demand and no source ships more than its supply; so it is at the
\* point the solver returns.
C6_ShippedEqualsDemand ==
    /\ TransportBuilt =>
          \A v \in Feasible(problem) :
              /\ SumSeq(v) = SumSeq(demand)
              /\ \A i \in 0..(Len(supply) - 1) :
                    SumSeq([j \in 1..Len(demand) |-> v[i * Len(demand) + j]])
                        <= supply[i + 1]
    /\ (script = "transport" /\ pc = "output" /\ status = "optimal") =>
          SumSeq(solution) = SumSeq(demand)

C6_Witness ==
    /\ script = "transport" /\ pc = "output" /\ status = "optimal"
    /\ supply = <<1, 2>> /\ demand = <<2, 1>>
    /\ SumSeq(solution) = 3
    /\ solution[1] + solution[2] <= 1

\* C7: a CplexError raised inside transportation_problem is caught: the
\* message is printed and the function returns; raised inside
\* assign_problem it reaches the caller.
C7_CplexErrorHandling ==
    /\ (script = "transport" /\ err) =>
          /\ pc \in {"except", "returned"}
          /\ pc = "returned" => /\ Len(out) > 0
                                /\ out[Len(out)] = "Exception raised:"
    /\ script = "transport" => pc # "raised"
    /\ (script = "assign" /\ err) =>
          /\ pc = "raised"
          /\ \A l \in 1..Len(out) : out[l] # "Exception raised:"
    /\ (script = "assign" /\ pc = "raised") => err

C7_Witness ==
    /\ script = "transport" /\ err /\ pc = "returned"
    /\ show /\ status = "infeasible"
    /\ out = <<"Solution status:", "Exception raised:">>

\* the data came from generate_data
Generated ==
    /\ script = "transport"
    /\ args.num_sources >= 1 /\ args.num_destinations >= 1
    /\ pc \notin {"generate", "value_error"}

GeneratedShape ==
    /\ Len(supply) = args.num_sources
    /\ Len(demand) = args.num_destinations
    /\ Len(costs) = args.num_sources * args.num_destinations
    /\ SumSeq(demand) = SumSeq(supply)
    /\ \A j \in 1..Len(demand) : demand[j] >= 1

\* C10 as stated: when sum(supply) >= num_destinations the lists have the
\* lengths asked for, the demands sum to the supplies and are all >= 1,
\* and the model built from them has a feasible point.
C10_GeneratedFeasible ==
    (Generated /\ SumSeq(supply) >= args.num_destinations) =>
        /\ GeneratedShape
        /\ TransportBuilt => Feasible(problem) # {}

\* C10 amended: the same, the feasible point being there when moreover no
\* supply entry is negative.
C10_GeneratedFeasibleNonNegative ==
    (Generated /\ SumSeq(supply) >= args.num_destinations) =>
        /\ GeneratedShape
        /\ (TransportBuilt /\ \A i \in 1..Len(supply) : supply[i] >= 0)
              => Feasible(problem) # {}

C10_Witness ==
    /\ Generated /\ TransportBuilt
    /\ supply = <<1, 2>> /\ demand = <<1, 2>>
    /\ Feasible(problem) # {}

(***************************************************************************)
(* Both scripts.                                                           *)
(***************************************************************************)
Init == InitAssign \/ InitTransport \/ InitGenerate

Next == NextAssign \/ NextTransport

Spec == Init /\ [][Next]_vars
==========================================================================
